---- MODULE Spec2Model ----
(***************************************************************************)
(* A model of LruCache (src/index.ts): a bounded key/value cache whose Map *)
(* insertion order is the recency order, with lazy TTL expiry, an optional *)
(* onEvict sink and optional hit/miss/eviction counters.                   *)
(*                                                                         *)
(* Every method is an operator over a record s that holds the mutable      *)
(* fields of the instance plus what the call has produced so far:          *)
(*   cache      the Map, as the sequence of its entries, oldest first      *)
(*   hits, misses, evictions   the private counters                        *)
(*   notified   the calls made to the onEvict callback during this call    *)
(*   exc        TRUE when an exception is propagating out of the call      *)
(* An action applies one public method to the current fields and stores    *)
(* the result together with a record of the call (lastOp, ret, threw,      *)
(* notified) and of the fields as the call found them (before); Return     *)
(* hands control back to the caller, which makes the next call or lets the *)
(* clock advance.                                                          *)
(***************************************************************************)
EXTENDS Integers, Sequences, FiniteSets, TLC

\* ---- bounds of the model ------------------------------------------------
MaxCapacity == 2
MaxTime == 2
MaxTtl == 1
MaxCount == 1
MaxValue == 2

Keys == {"a", "b", "c"}
Values == 1..MaxValue
Capacities == 1..MaxCapacity

\* expiresAt: null (CacheEntry.expiresAt is number | null); timestamps are >= 0
NULL == -1
\* the value `undefined` returned by get and peek
UNDEFINED == 0
\* the Map lookup result `undefined`
NoEntry == [undefined |-> TRUE]

\* The itemTtlMs argument of set: undefined, null, or a number.  A number is
\* carried in half-milliseconds so that fractional values are inputs too:
\* halves = 2 * itemTtlMs, and Number.isInteger(itemTtlMs) is halves % 2 = 0.
TtlUndefined == [kind |-> "undefined", halves |-> 0]
TtlNull == [kind |-> "null", halves |-> 0]
TtlNumber(h) == [kind |-> "number", halves |-> h]
\* -1 ms, 0 ms, 0.5 ms and the whole numbers 1..MaxTtl ms
ItemTtls == {TtlUndefined, TtlNull, TtlNumber(-2), TtlNumber(0), TtlNumber(1)}
                \cup {TtlNumber(2 * t) : t \in 1..MaxTtl}
\* the keys for which the configured onEvict callback throws
SinkThrowsOn == {"a"}
DefaultTtls == {NULL} \cup 1..MaxTtl

VARIABLES
    capacity,    \* LruCache.capacity
    defaultTtl,  \* LruCache.defaultTtl (NULL when none)
    trackStats,  \* LruCache.#trackStats
    hasSink,     \* whether options.onEvict was given
    cache,       \* LruCache.cache: sequence of [key, value, expiresAt], oldest first
    hits,        \* LruCache.#hits
    misses,      \* LruCache.#misses
    evictions,   \* LruCache.#evictions
    now,         \* Date.now()
    lastOp,      \* the call that has just ended: [name, key, ttl], and value for set; Idle between calls
    ret,         \* what that call returned
    threw,       \* TRUE when that call ended by throwing
    notified,    \* the onEvict calls made during that call
    before,      \* the fields of the instance when that call began
    recency      \* stored keys, ordered by their last set or successful get

vars == <<capacity, defaultTtl, trackStats, hasSink, cache, hits, misses,
          evictions, now, lastOp, ret, threw, notified, before, recency>>

config == <<capacity, defaultTtl, trackStats, hasSink>>

\* ---- the Map ------------------------------------------------------------
\* position of key in the Map's iteration order, 0 when the key is absent
IndexOf(c, key) ==
    IF \E i \in 1..Len(c) : c[i].key = key
    THEN CHOOSE i \in 1..Len(c) : c[i].key = key
    ELSE 0

\* Map.prototype.get
MapGet(c, key) ==
    LET i == IndexOf(c, key)
    IN IF i = 0 THEN NoEntry ELSE c[i]

\* Map.prototype.has
MapHas(c, key) == IndexOf(c, key) # 0

\* Map.prototype.delete: the other entries keep their order
MapDelete(c, key) ==
    LET i == IndexOf(c, key)
    IN IF i = 0 THEN c ELSE SubSeq(c, 1, i - 1) \o SubSeq(c, i + 1, Len(c))

\* Map.prototype.set: a present key keeps its position, a new key goes last
MapSet(c, key, entry) ==
    LET i == IndexOf(c, key)
        e == [key |-> key, value |-> entry.value, expiresAt |-> entry.expiresAt]
    IN IF i = 0 THEN Append(c, e) ELSE [c EXCEPT ![i] = e]

\* LruCache.keys
keys(c) == [i \in 1..Len(c) |-> c[i].key]

KeySet(c) == {c[i].key : i \in 1..Len(c)}

\* LruCache.size
size(s) == Len(s.cache)

\* ---- LruCacheEvents -----------------------------------------------------
\* emitEviction without the try/catch: the callback's exception propagates
emitEvictionNoCatch(s, key, value, throwsOn) ==
    IF hasSink
    THEN [s EXCEPT !.notified = Append(@, [key |-> key, value |-> value, threw |-> key \in throwsOn]),
                   !.exc = key \in throwsOn]
    ELSE s

\* LruCacheEvents.emitEviction: calls onEvict when there is one; an exception
\* of the callback is caught and logged
emitEviction(s, key, value, throwsOn) ==
    IF hasSink
    THEN [s EXCEPT !.notified = Append(@, [key |-> key, value |-> value, threw |-> key \in throwsOn])]
    ELSE s

\* ---- LruCache, private helpers -----------------------------------------
\* #isExpired with >= in place of >
isExpiredAtInstant(entry) ==
    IF entry = NoEntry \/ entry.expiresAt = NULL THEN FALSE
    ELSE now >= entry.expiresAt

\* LruCache.#isExpired
isExpired(entry) ==
    IF entry = NoEntry \/ entry.expiresAt = NULL THEN FALSE
    ELSE now > entry.expiresAt

\* #deleteAndNotifyIfKeyExpired without the cache.delete
deleteAndNotifyIfKeyExpiredKeeps(s, key, throwsOn) ==
    LET entry == MapGet(s.cache, key)
    IN IF isExpired(entry)
       THEN LET s2 == emitEviction(s, key, entry.value, throwsOn)
                s3 == IF s2.exc \/ ~trackStats THEN s2
                      ELSE [s2 EXCEPT !.evictions = @ + 1]
            IN [s |-> s3, ret |-> TRUE]
       ELSE [s |-> s, ret |-> FALSE]

\* LruCache.#deleteAndNotifyIfKeyExpired; the result is [s, ret]
deleteAndNotifyIfKeyExpired(s, key, throwsOn) ==
    LET entry == MapGet(s.cache, key)
    IN IF isExpired(entry)
       THEN LET s1 == [s EXCEPT !.cache = MapDelete(@, key)]
                s2 == emitEviction(s1, key, entry.value, throwsOn)
                s3 == IF s2.exc \/ ~trackStats THEN s2
                      ELSE [s2 EXCEPT !.evictions = @ + 1]
            IN [s |-> s3, ret |-> TRUE]
       ELSE [s |-> s, ret |-> FALSE]

\* setMostRecentlyUsed without the delete: a stored key keeps its position
setMostRecentlyUsedInPlace(s, key, value, expiresAt) ==
    [s EXCEPT !.cache = MapSet(@, key, [value |-> value, expiresAt |-> expiresAt])]

\* LruCache.setMostRecentlyUsed
setMostRecentlyUsed(s, key, value, expiresAt) ==
    [s EXCEPT !.cache = MapSet(MapDelete(@, key), key, [value |-> value, expiresAt |-> expiresAt])]

\* evictOldest that leaves the store alone
evictOldestNothing(s, throwsOn) == s

\* evictOldest that tells onEvict but never counts
evictOldestUncounted(s, throwsOn) ==
    IF s.cache = <<>> THEN s
    ELSE LET oldest == Head(s.cache)
             s1 == [s EXCEPT !.cache = MapDelete(@, oldest.key)]
         IN emitEviction(s1, oldest.key, oldest.value, throwsOn)

\* evictOldest that removes the oldest expired entry when there is one
evictOldestPreferExpired(s, throwsOn) ==
    IF s.cache = <<>> THEN s
    ELSE LET gone == SelectSeq(s.cache, LAMBDA e : isExpired(e))
             oldest == IF gone # <<>> THEN Head(gone) ELSE Head(s.cache)
             s1 == [s EXCEPT !.cache = MapDelete(@, oldest.key)]
             s2 == emitEviction(s1, oldest.key, oldest.value, throwsOn)
         IN IF s2.exc \/ ~trackStats THEN s2
            ELSE [s2 EXCEPT !.evictions = @ + 1]

\* evictOldest that counts the eviction whether or not stats are tracked
evictOldestCounting(s, throwsOn) ==
    IF s.cache = <<>> THEN s
    ELSE LET oldest == Head(s.cache)
             s1 == [s EXCEPT !.cache = MapDelete(@, oldest.key)]
             s2 == emitEviction(s1, oldest.key, oldest.value, throwsOn)
         IN IF s2.exc THEN s2
            ELSE [s2 EXCEPT !.evictions = @ + 1]

\* LruCache.evictOldest: removes the first entry of the Map
evictOldest(s, throwsOn) ==
    IF s.cache = <<>> THEN s
    ELSE LET oldest == Head(s.cache)
             s1 == [s EXCEPT !.cache = MapDelete(@, oldest.key)]
             s2 == emitEviction(s1, oldest.key, oldest.value, throwsOn)
         IN IF s2.exc \/ ~trackStats THEN s2
            ELSE [s2 EXCEPT !.evictions = @ + 1]

\* ---- LruCache, public methods ------------------------------------------
\* Each returns [s, ret]; ret is meaningful only when s.exc is FALSE.

\* has that moves the entry it finds to the most recent end
hasBumping(s, key, throwsOn) ==
    LET d == deleteAndNotifyIfKeyExpired(s, key, throwsOn)
        entry == MapGet(d.s.cache, key)
    IN IF d.s.exc THEN d
       ELSE IF d.ret THEN [s |-> d.s, ret |-> FALSE]
       ELSE IF entry = NoEntry THEN [s |-> d.s, ret |-> FALSE]
       ELSE [s |-> setMostRecentlyUsed(d.s, key, entry.value, entry.expiresAt), ret |-> TRUE]

\* LruCache.has
has(s, key, throwsOn) ==
    LET d == deleteAndNotifyIfKeyExpired(s, key, throwsOn)
    IN IF d.s.exc THEN d
       ELSE IF d.ret THEN [s |-> d.s, ret |-> FALSE]
       ELSE [s |-> d.s, ret |-> MapHas(d.s.cache, key)]

\* get that first drops every other entry that is expired
getSweeping(s, key, throwsOn) ==
    LET s0 == [s EXCEPT !.cache = SelectSeq(@, LAMBDA e : e.key = key \/ ~isExpired(e))]
        d == deleteAndNotifyIfKeyExpired(s0, key, throwsOn)
        entry == MapGet(d.s.cache, key)
        miss == IF trackStats THEN [d.s EXCEPT !.misses = @ + 1] ELSE d.s
    IN IF d.s.exc THEN [s |-> d.s, ret |-> UNDEFINED]
       ELSE IF d.ret THEN [s |-> miss, ret |-> UNDEFINED]
       ELSE IF entry = NoEntry THEN [s |-> miss, ret |-> UNDEFINED]
       ELSE LET s1 == setMostRecentlyUsed(d.s, key, entry.value, entry.expiresAt)
                s2 == IF trackStats THEN [s1 EXCEPT !.hits = @ + 1] ELSE s1
            IN [s |-> s2, ret |-> entry.value]

\* get that restarts the default TTL of the entry it returns
getRenewing(s, key, throwsOn) ==
    LET d == deleteAndNotifyIfKeyExpired(s, key, throwsOn)
        entry == MapGet(d.s.cache, key)
        miss == IF trackStats THEN [d.s EXCEPT !.misses = @ + 1] ELSE d.s
    IN IF d.s.exc THEN [s |-> d.s, ret |-> UNDEFINED]
       ELSE IF d.ret THEN [s |-> miss, ret |-> UNDEFINED]
       ELSE IF entry = NoEntry THEN [s |-> miss, ret |-> UNDEFINED]
       ELSE LET s1 == setMostRecentlyUsed(d.s, key, entry.value,
                          IF defaultTtl = NULL THEN NULL ELSE now + defaultTtl)
                s2 == IF trackStats THEN [s1 EXCEPT !.hits = @ + 1] ELSE s1
            IN [s |-> s2, ret |-> entry.value]

\* LruCache.get
get(s, key, throwsOn) ==
    LET d == deleteAndNotifyIfKeyExpired(s, key, throwsOn)
        entry == MapGet(d.s.cache, key)
        miss == IF trackStats THEN [d.s EXCEPT !.misses = @ + 1] ELSE d.s
    IN IF d.s.exc THEN [s |-> d.s, ret |-> UNDEFINED]
       ELSE IF d.ret THEN [s |-> miss, ret |-> UNDEFINED]
       ELSE IF entry = NoEntry THEN [s |-> miss, ret |-> UNDEFINED]
       ELSE LET s1 == setMostRecentlyUsed(d.s, key, entry.value, entry.expiresAt)
                s2 == IF trackStats THEN [s1 EXCEPT !.hits = @ + 1] ELSE s1
            IN [s |-> s2, ret |-> entry.value]

\* peek that counts a hit or a miss as get does
peekCounting(s, key, throwsOn) ==
    LET d == deleteAndNotifyIfKeyExpired(s, key, throwsOn)
        entry == MapGet(d.s.cache, key)
        miss == IF trackStats THEN [d.s EXCEPT !.misses = @ + 1] ELSE d.s
        hit == IF trackStats THEN [d.s EXCEPT !.hits = @ + 1] ELSE d.s
    IN IF d.s.exc THEN [s |-> d.s, ret |-> UNDEFINED]
       ELSE IF d.ret \/ entry = NoEntry THEN [s |-> miss, ret |-> UNDEFINED]
       ELSE [s |-> hit, ret |-> entry.value]

\* LruCache.peek
peek(s, key, throwsOn) ==
    LET d == deleteAndNotifyIfKeyExpired(s, key, throwsOn)
        entry == MapGet(d.s.cache, key)
    IN IF d.s.exc \/ d.ret THEN [s |-> d.s, ret |-> UNDEFINED]
       ELSE IF entry = NoEntry THEN [s |-> d.s, ret |-> UNDEFINED]
       ELSE [s |-> d.s, ret |-> entry.value]

\* set that treats a null itemTtlMs as an omitted one
setNullAsOmitted(s, key, value, itemTtlMs, throwsOn) ==
    LET h == has(s, key, throwsOn)
        s1 == IF h.s.exc THEN h.s
              ELSE IF ~h.ret /\ size(h.s) >= capacity THEN evictOldest(h.s, throwsOn)
              ELSE h.s
        s2 == IF s1.exc THEN s1
              ELSE IF itemTtlMs.kind = "number" /\ itemTtlMs.halves > 0
                   THEN IF itemTtlMs.halves % 2 # 0
                        THEN [s1 EXCEPT !.exc = TRUE]
                        ELSE setMostRecentlyUsed(s1, key, value, now + itemTtlMs.halves \div 2)
              ELSE IF defaultTtl # NULL /\ defaultTtl > 0
                   THEN setMostRecentlyUsed(s1, key, value, now + defaultTtl)
              ELSE setMostRecentlyUsed(s1, key, value, NULL)
    IN [s |-> s2, ret |-> "this"]

\* set that asks the Map, not has(), whether the key is stored
setAskingMap(s, key, value, itemTtlMs, throwsOn) ==
    LET s1 == IF ~MapHas(s.cache, key) /\ size(s) >= capacity THEN evictOldest(s, throwsOn)
              ELSE s
        s2 == IF s1.exc THEN s1
              ELSE IF itemTtlMs.kind = "null"
                   THEN setMostRecentlyUsed(s1, key, value, NULL)
              ELSE IF itemTtlMs.kind = "number" /\ itemTtlMs.halves > 0
                   THEN IF itemTtlMs.halves % 2 # 0
                        THEN [s1 EXCEPT !.exc = TRUE]
                        ELSE setMostRecentlyUsed(s1, key, value, now + itemTtlMs.halves \div 2)
              ELSE IF defaultTtl # NULL /\ defaultTtl > 0
                   THEN setMostRecentlyUsed(s1, key, value, now + defaultTtl)
              ELSE setMostRecentlyUsed(s1, key, value, NULL)
    IN [s |-> s2, ret |-> "this"]

\* set that makes room whenever the store is full, stored key or not
setEvictingWhenFull(s, key, value, itemTtlMs, throwsOn) ==
    LET h == has(s, key, throwsOn)
        s1 == IF h.s.exc THEN h.s
              ELSE IF size(h.s) >= capacity THEN evictOldest(h.s, throwsOn)
              ELSE h.s
        s2 == IF s1.exc THEN s1
              ELSE IF itemTtlMs.kind = "null"
                   THEN setMostRecentlyUsed(s1, key, value, NULL)
              ELSE IF itemTtlMs.kind = "number" /\ itemTtlMs.halves > 0
                   THEN IF itemTtlMs.halves % 2 # 0
                        THEN [s1 EXCEPT !.exc = TRUE]
                        ELSE setMostRecentlyUsed(s1, key, value, now + itemTtlMs.halves \div 2)
              ELSE IF defaultTtl # NULL /\ defaultTtl > 0
                   THEN setMostRecentlyUsed(s1, key, value, now + defaultTtl)
              ELSE setMostRecentlyUsed(s1, key, value, NULL)
    IN [s |-> s2, ret |-> "this"]

\* LruCache.set
set(s, key, value, itemTtlMs, throwsOn) ==
    LET h == has(s, key, throwsOn)
        s1 == IF h.s.exc THEN h.s
              ELSE IF ~h.ret /\ size(h.s) >= capacity THEN evictOldest(h.s, throwsOn)
              ELSE h.s
        s2 == IF s1.exc THEN s1
              ELSE IF itemTtlMs.kind = "null"
                   THEN setMostRecentlyUsed(s1, key, value, NULL)
              ELSE IF itemTtlMs.kind = "number" /\ itemTtlMs.halves > 0
                   THEN IF itemTtlMs.halves % 2 # 0
                        THEN [s1 EXCEPT !.exc = TRUE]
                        ELSE setMostRecentlyUsed(s1, key, value, now + itemTtlMs.halves \div 2)
              ELSE IF defaultTtl # NULL /\ defaultTtl > 0
                   THEN setMostRecentlyUsed(s1, key, value, now + defaultTtl)
              ELSE setMostRecentlyUsed(s1, key, value, NULL)
    IN [s |-> s2, ret |-> "this"]

\* delete that reports the removal to onEvict and counts it
deleteNotifying(s, key) ==
    LET entry == MapGet(s.cache, key)
        s1 == [s EXCEPT !.cache = MapDelete(@, key)]
        s2 == emitEviction(s1, key, entry.value, {})
    IN IF entry = NoEntry THEN [s |-> s, ret |-> FALSE]
       ELSE [s |-> IF trackStats THEN [s2 EXCEPT !.evictions = @ + 1] ELSE s2, ret |-> TRUE]

\* LruCache.delete
delete(s, key) ==
    [s |-> [s EXCEPT !.cache = MapDelete(@, key)], ret |-> MapHas(s.cache, key)]

\* LruCache.clear
clear(s) == [s |-> [s EXCEPT !.cache = <<>>], ret |-> "this"]

RECURSIVE purgeLoop(_, _, _, _)
\* the for loop of purgeExpired over the snapshot ks of the keys
purgeLoop(s, ks, purgedCount, throwsOn) ==
    IF ks = <<>> \/ s.exc THEN [s |-> s, ret |-> purgedCount]
    ELSE LET d == deleteAndNotifyIfKeyExpired(s, Head(ks), throwsOn)
         IN purgeLoop(d.s, Tail(ks), IF d.ret THEN purgedCount + 1 ELSE purgedCount, throwsOn)

\* purgeExpired that starts its sweep after the oldest entry
purgeExpiredSkippingOldest(s, throwsOn) ==
    IF s.cache = <<>> THEN [s |-> s, ret |-> 0]
    ELSE purgeLoop(s, Tail(keys(s.cache)), 0, throwsOn)

RECURSIVE purgeLoopViaGet(_, _, _, _)
\* a sweep that looks each key up with get
purgeLoopViaGet(s, ks, purgedCount, throwsOn) ==
    IF ks = <<>> \/ s.exc THEN [s |-> s, ret |-> purgedCount]
    ELSE LET g == get(s, Head(ks), throwsOn)
         IN purgeLoopViaGet(g.s, Tail(ks),
                            IF g.ret = UNDEFINED THEN purgedCount + 1 ELSE purgedCount, throwsOn)

\* purgeExpired that sweeps with get
purgeExpiredViaGet(s, throwsOn) == purgeLoopViaGet(s, keys(s.cache), 0, throwsOn)

\* LruCache.purgeExpired
purgeExpired(s, throwsOn) == purgeLoop(s, keys(s.cache), 0, throwsOn)

\* LruCache.stats
stats(s) == [hits |-> s.hits, misses |-> s.misses, evictions |-> s.evictions]

\* LruCache.resetStats
resetStats(s) ==
    IF trackStats THEN [s EXCEPT !.hits = 0, !.misses = 0, !.evictions = 0] ELSE s

\* ---- the state machine --------------------------------------------------
\* the fields of the instance at the start of a call
Self == [cache |-> cache, hits |-> hits, misses |-> misses, evictions |-> evictions,
         notified |-> <<>>, exc |-> FALSE]

Op(name, key, ttl) == [name |-> name, key |-> key, ttl |-> ttl]

\* the record of a call of set, which also has the value passed
SetOp(key, value, ttl) == [name |-> "set", key |-> key, ttl |-> ttl, value |-> value]

Idle == Op("idle", "", TtlUndefined)

\* `before` between calls
NoCall == [cache |-> <<>>, hits |-> 0, misses |-> 0, evictions |-> 0, recency |-> <<>>]

\* `before` during a call
Snapshot == [cache |-> cache, hits |-> hits, misses |-> misses, evictions |-> evictions,
             recency |-> recency]

RECURSIVE Without(_, _)
\* the sequence q without the elements outside the set S
Without(q, S) ==
    IF q = <<>> THEN <<>>
    ELSE IF Head(q) \in S THEN <<Head(q)>> \o Without(Tail(q), S)
    ELSE Without(Tail(q), S)

\* the order of last use after a call that used the keys in `used` (at most one)
Used(used, newCache) ==
    LET kept == Without(recency, KeySet(newCache) \ used)
    IN IF used \subseteq KeySet(newCache)
       THEN kept \o Without(keys(newCache), used)
       ELSE kept

\* the counters stay within the model's bound
InBounds(s) == s.hits <= MaxCount /\ s.misses <= MaxCount /\ s.evictions <= MaxCount

\* the call op, made between two calls, ends with the outcome r
Commit(op, r, used) ==
    /\ lastOp = Idle
    /\ InBounds(r.s)
    /\ cache' = r.s.cache
    /\ hits' = r.s.hits
    /\ misses' = r.s.misses
    /\ evictions' = r.s.evictions
    /\ notified' = r.s.notified
    /\ threw' = r.s.exc
    /\ ret' = IF r.s.exc THEN "none" ELSE r.ret
    /\ lastOp' = op
    /\ before' = Snapshot
    /\ recency' = Used(used, r.s.cache)
    /\ UNCHANGED <<config, now>>

Init ==
    /\ capacity \in Capacities
    /\ defaultTtl \in DefaultTtls
    /\ trackStats \in BOOLEAN
    /\ hasSink \in BOOLEAN
    /\ cache = <<>>
    /\ hits = 0
    /\ misses = 0
    /\ evictions = 0
    /\ now = 0
    /\ lastOp = Idle
    /\ ret = "none"
    /\ threw = FALSE
    /\ notified = <<>>
    /\ before = NoCall
    /\ recency = <<>>

Get ==
    \E key \in Keys :
        LET r == get(Self, key, SinkThrowsOn)
        IN Commit(Op("get", key, TtlUndefined), r,
                  IF ~r.s.exc /\ r.ret # UNDEFINED THEN {key} ELSE {})

Peek ==
    \E key \in Keys :
        Commit(Op("peek", key, TtlUndefined), peek(Self, key, SinkThrowsOn), {})

Has ==
    \E key \in Keys :
        Commit(Op("has", key, TtlUndefined), has(Self, key, SinkThrowsOn), {})

Set ==
    \E key \in Keys, value \in Values, itemTtlMs \in ItemTtls :
        LET r == set(Self, key, value, itemTtlMs, SinkThrowsOn)
        IN Commit(SetOp(key, value, itemTtlMs), r, IF r.s.exc THEN {} ELSE {key})

Delete ==
    \E key \in Keys :
        Commit(Op("delete", key, TtlUndefined), delete(Self, key), {})

Clear == Commit(Op("clear", "", TtlUndefined), clear(Self), {})

PurgeExpired ==
    Commit(Op("purgeExpired", "", TtlUndefined), purgeExpired(Self, SinkThrowsOn), {})

ResetStats ==
    Commit(Op("resetStats", "", TtlUndefined), [s |-> resetStats(Self), ret |-> "none"], {})

\* control is back with the caller, which makes the next call or lets time pass
Return ==
    /\ lastOp # Idle
    /\ lastOp' = Idle
    /\ ret' = "none"
    /\ threw' = FALSE
    /\ notified' = <<>>
    /\ before' = NoCall
    /\ UNCHANGED <<config, cache, hits, misses, evictions, now, recency>>

\* the clock advances between calls
Tick ==
    /\ lastOp = Idle
    /\ now < MaxTime
    /\ now' = now + 1
    /\ UNCHANGED <<config, cache, hits, misses, evictions, lastOp, ret, threw, notified,
                   before, recency>>

Next ==
    \/ Get
    \/ Peek
    \/ Has
    \/ Set
    \/ Delete
    \/ Clear
    \/ PurgeExpired
    \/ ResetStats
    \/ Return
    \/ Tick

Spec == Init /\ [][Next]_vars

\* an instance with room for one entry more than Spec's largest, with the
\* largest default TTL and a sink
WideInit ==
    /\ capacity = MaxCapacity + 1
    /\ defaultTtl = MaxTtl
    /\ trackStats \in BOOLEAN
    /\ hasSink = TRUE
    /\ cache = <<>>
    /\ hits = 0
    /\ misses = 0
    /\ evictions = 0
    /\ now = 0
    /\ lastOp = Idle
    /\ ret = "none"
    /\ threw = FALSE
    /\ notified = <<>>
    /\ before = NoCall
    /\ recency = <<>>

WideSpec == WideInit /\ [][Next]_vars

\* ---- what the claims speak of -------------------------------------------
\* a call of the method `name` has just ended
Returned(name) == lastOp.name = name

\* the entry of key when the call began, and after it
EntryBefore(key) == MapGet(before.cache, key)
EntryAfter(key) == MapGet(cache, key)
StoredBefore(key) == \E i \in 1..Len(before.cache) : before.cache[i].key = key
StoredAfter(key) == \E i \in 1..Len(cache) : cache[i].key = key

\* the entry e has a timestamp and the clock is past it
PastExpiry(e) == e.expiresAt # NULL /\ now > e.expiresAt

\* the entries of c other than that of key, in their order
Others(c, key) == SelectSeq(c, LAMBDA e : e.key # key)

\* C1: the number of stored entries never exceeds the configured capacity,
\* whatever calls were made and however the clock advanced.
C1_SizeWithinCapacity == Len(cache) <= capacity

\* a set of a new key into a full store of the largest capacity has ended
C1_Witness ==
    /\ Returned("set") /\ ~threw
    /\ capacity = MaxCapacity
    /\ Len(before.cache) = capacity
    /\ ~StoredBefore(lastOp.key)
    /\ Len(cache) = capacity

\* C2: a set that inserts a key not stored, into a store that holds capacity
\* entries, removes exactly one entry: the stored key whose last set or
\* successful get is the oldest (peek and has are no use).  The other entries
\* stay as they were.
C2_EvictsLeastRecentlyUsed ==
    (/\ Returned("set") /\ ~threw
     /\ ~StoredBefore(lastOp.key)
     /\ Len(before.cache) = capacity)
    => LET lru == Head(before.recency)
       IN /\ StoredBefore(lru)
          /\ ~StoredAfter(lru)
          /\ Len(cache) = capacity
          /\ StoredAfter(lastOp.key)
          /\ Others(cache, lastOp.key) = Others(before.cache, lru)

\* capacity 2: a was set before b, a get made a the more recent one, and the
\* set of c has evicted b and kept a
C2_Witness ==
    /\ Returned("set") /\ ~threw
    /\ capacity = 2
    /\ Len(before.cache) = 2
    /\ before.cache[1].key = "b" /\ before.cache[2].key = "a"
    /\ before.cache[1].expiresAt # NULL /\ before.cache[2].expiresAt # NULL
    /\ before.cache[2].expiresAt < before.cache[1].expiresAt
    /\ lastOp.key = "c"
    /\ keys(cache) = <<"a", "c">>
    /\ hasSink /\ Len(notified) = 1 /\ notified[1].key = "b"

\* C3: get of a stored, unexpired key returns the stored value and moves the
\* key to the most-recently-used end; its value and its expiry timestamp are
\* what they were, and so are the other entries.
C3_GetBumpsAndPreserves ==
    (/\ Returned("get")
     /\ StoredBefore(lastOp.key)
     /\ ~PastExpiry(EntryBefore(lastOp.key)))
    => /\ ~threw
       /\ ret = EntryBefore(lastOp.key).value
       /\ cache = Append(Others(before.cache, lastOp.key), EntryBefore(lastOp.key))

\* a get at the very instant of expiry has moved the oldest of two entries to
\* the most-recently-used end
C3_Witness ==
    /\ Returned("get")
    /\ Len(before.cache) = 2
    /\ before.cache[1].key = lastOp.key
    /\ before.cache[1].expiresAt = now
    /\ ret = before.cache[1].value
    /\ cache[2] = before.cache[1]
    /\ cache[1] = before.cache[2]

\* what get, peek and has return for a key they find, and for one they do not
ReportsPresent(e) == IF Returned("has") THEN ret = TRUE ELSE ret = e.value
ReportsAbsent == IF Returned("has") THEN ret = FALSE ELSE ret = UNDEFINED
IsRead == Returned("get") \/ Returned("peek") \/ Returned("has")

\* C4: an entry stored at time t0 with TTL T has expiresAt = t0 + T; get, peek
\* and has report it present at every time now <= t0 + T, the instant of
\* expiry included, and absent at every time now > t0 + T.
C4_ExpiryIsStrict ==
    /\ (Returned("set") /\ ~threw /\ lastOp.ttl.kind = "number" /\ lastOp.ttl.halves > 0)
       => 2 * EntryAfter(lastOp.key).expiresAt = 2 * now + lastOp.ttl.halves
    /\ (Returned("set") /\ ~threw /\ lastOp.ttl.kind = "undefined" /\ defaultTtl # NULL)
       => EntryAfter(lastOp.key).expiresAt = now + defaultTtl
    /\ (IsRead /\ StoredBefore(lastOp.key) /\ EntryBefore(lastOp.key).expiresAt # NULL)
       => IF now <= EntryBefore(lastOp.key).expiresAt
          THEN ReportsPresent(EntryBefore(lastOp.key))
          ELSE ReportsAbsent

\* has finds an entry at the very instant of its expiry
C4_Witness ==
    /\ Returned("has")
    /\ StoredBefore(lastOp.key)
    /\ EntryBefore(lastOp.key).expiresAt = now
    /\ now > 0
    /\ ret = TRUE

\* the entries of c that are past their expiry, and those that are not
Expired(c) == SelectSeq(c, LAMBDA e : PastExpiry(e))
Unexpired(c) == SelectSeq(c, LAMBDA e : ~PastExpiry(e))

\* what onEvict is called with for the entry e
Notice(e) == [key |-> e.key, value |-> e.value, threw |-> e.key \in SinkThrowsOn]

\* the counter evictions has grown by n where it is tracked, and not otherwise
EvictionsGrewBy(n) == evictions = before.evictions + (IF trackStats THEN n ELSE 0)

\* C5: when get, peek, has or purgeExpired touches an expired entry, the entry
\* is removed, onEvict is called with its key and stored value, and evictions
\* grows by one where stats are tracked.  No call notifies twice for a key, and
\* every notification is for an entry that was stored when the call began and
\* that the call has removed, so no stored entry is ever notified a second time.
C5_ExpiredRemovedNotifiedOnce ==
    /\ (IsRead /\ StoredBefore(lastOp.key) /\ PastExpiry(EntryBefore(lastOp.key)))
       => /\ cache = Others(before.cache, lastOp.key)
          /\ notified = IF hasSink THEN <<Notice(EntryBefore(lastOp.key))>> ELSE <<>>
          /\ EvictionsGrewBy(1)
    /\ Returned("purgeExpired")
       => /\ cache = Unexpired(before.cache)
          /\ Len(notified) = IF hasSink THEN Len(Expired(before.cache)) ELSE 0
          /\ \A i \in 1..Len(notified) : notified[i] = Notice(Expired(before.cache)[i])
          /\ EvictionsGrewBy(Len(Expired(before.cache)))
    /\ \A i \in 1..Len(notified) :
          /\ StoredBefore(notified[i].key)
          /\ EntryBefore(notified[i].key).value = notified[i].value
          /\ \A j \in 1..Len(notified) : notified[j].key = notified[i].key => j = i
          /\ \/ ~StoredAfter(notified[i].key)
             \/ Returned("set") /\ lastOp.key = notified[i].key

\* peek has found an expired entry, with a sink and tracked stats
C5_Witness ==
    /\ Returned("peek")
    /\ hasSink /\ trackStats
    /\ StoredBefore(lastOp.key)
    /\ PastExpiry(EntryBefore(lastOp.key))
    /\ Len(before.cache) = 2
    /\ notified = <<Notice(EntryBefore(lastOp.key))>>
    /\ evictions = before.evictions + 1
    /\ ~StoredAfter(lastOp.key)

\* C6: an entry written with the no-expiry override (a null TTL) has no expiry
\* timestamp whatever default TTL is configured, and is never removed on
\* grounds of expiry: get, peek and has find it at any time, purgeExpired keeps
\* it, and it leaves the store only by delete, clear or capacity eviction and
\* changes only by a set of its key.
C6_NoExpiryOverride ==
    /\ (Returned("set") /\ ~threw /\ lastOp.ttl.kind = "null")
       => EntryAfter(lastOp.key).expiresAt = NULL
    /\ \A i \in 1..Len(before.cache) :
          LET e == before.cache[i]
          IN e.expiresAt = NULL
             => /\ (IsRead /\ lastOp.key = e.key) => ReportsPresent(e)
                /\ ~StoredAfter(e.key)
                   => \/ Returned("delete") /\ lastOp.key = e.key
                      \/ Returned("clear")
                      \/ /\ Returned("set") /\ lastOp.key # e.key /\ ~StoredBefore(lastOp.key)
                         /\ Len(before.cache) = capacity /\ i = 1
                /\ (StoredAfter(e.key) /\ EntryAfter(e.key) # e)
                   => Returned("set") /\ lastOp.key = e.key

\* under a default TTL, purgeExpired at the last instant of the clock has
\* removed an expired entry and kept an older one that has no expiry
C6_Witness ==
    /\ Returned("purgeExpired")
    /\ defaultTtl # NULL
    /\ now = MaxTime
    /\ Len(before.cache) = 2
    /\ before.cache[1].expiresAt = NULL
    /\ PastExpiry(before.cache[2])
    /\ cache = <<before.cache[1]>>
    /\ ret = 1

\* the keys onEvict was called with during the call
NotifiedKeys == {notified[i].key : i \in 1..Len(notified)}

C8_BadTtlRejected ==
    (/\ Returned("set")
     /\ lastOp.ttl.kind = "number"
     /\ (lastOp.ttl.halves <= 0 \/ lastOp.ttl.halves % 2 # 0))
    => /\ threw
       /\ EntryAfter(lastOp.key) = EntryBefore(lastOp.key)

\* C9: a set that fails for a bad per-item TTL fails before any mutation: the
\* entries and their order, the counters and the notifications are what they
\* were before the call.
C9_FailsBeforeMutation ==
    (Returned("set") /\ threw)
    => /\ cache = before.cache
       /\ hits = before.hits /\ misses = before.misses /\ evictions = before.evictions
       /\ notified = <<>>

\* the call that has just ended, made again from the same fields with an
\* onEvict that returns normally; a set stores the value it has stored
QuietOutcome ==
    LET s0 == [cache |-> before.cache, hits |-> before.hits, misses |-> before.misses,
               evictions |-> before.evictions, notified |-> <<>>, exc |-> FALSE]
        value == IF StoredAfter(lastOp.key) THEN EntryAfter(lastOp.key).value ELSE 1
    IN CASE Returned("get") -> get(s0, lastOp.key, {})
         [] Returned("peek") -> peek(s0, lastOp.key, {})
         [] Returned("has") -> has(s0, lastOp.key, {})
         [] Returned("set") -> set(s0, lastOp.key, value, lastOp.ttl, {})
         [] Returned("purgeExpired") -> purgeExpired(s0, {})

\* C10: a failure raised by onEvict does not reach the caller and does not
\* abort the call: whenever the callback has thrown during a set, get, peek,
\* has or purgeExpired, the entries and their order, the counters, the
\* returned value and the callback's calls are those of the same call with a
\* callback that returns normally.
C10_SinkFailureIsolated ==
    (\E i \in 1..Len(notified) : notified[i].threw)
    => LET q == QuietOutcome
       IN /\ cache = q.s.cache
          /\ hits = q.s.hits /\ misses = q.s.misses /\ evictions = q.s.evictions
          /\ threw = q.s.exc
          /\ ~threw => ret = q.ret
          /\ Len(notified) = Len(q.s.notified)
          /\ \A i \in 1..Len(notified) :
                /\ notified[i].key = q.s.notified[i].key
                /\ notified[i].value = q.s.notified[i].value

\* onEvict has thrown for the entry a set evicted from a full store, and the
\* set has stored its key and counted the eviction
C10_Witness ==
    /\ Returned("set") /\ ~threw
    /\ trackStats
    /\ Len(before.cache) = capacity
    /\ ~StoredBefore(lastOp.key)
    /\ Len(notified) = 1 /\ notified[1].threw
    /\ StoredAfter(lastOp.key)
    /\ evictions = before.evictions + 1

\* C11 as stated: set never removes an entry because it is expired, so a set
\* of a key that is stored never calls onEvict for that key and never
\* increments evictions.
C11_SetNeverExpires ==
    (Returned("set") /\ StoredBefore(lastOp.key))
    => /\ lastOp.key \notin NotifiedKeys
       /\ evictions = before.evictions

\* a call that names one key
IsKeyed == IsRead \/ Returned("set") \/ Returned("delete")

\* C11, amended: an entry is removed on grounds of expiry only by get, peek,
\* has or set on its own key, or by purgeExpired.  A set of a stored key that
\* is past its expiry removes the old entry through has(): it calls onEvict
\* once with the old value and counts one eviction; a set of a stored key that
\* is not past its expiry calls onEvict for nothing and counts nothing.  No
\* call that names a key removes an expired entry of another key, capacity
\* eviction of the oldest entry apart.
C11_ExpiryRemovalOnlyOnTouch ==
    /\ (Returned("set") /\ StoredBefore(lastOp.key) /\ ~PastExpiry(EntryBefore(lastOp.key)))
       => /\ notified = <<>>
          /\ evictions = before.evictions
    /\ (Returned("set") /\ StoredBefore(lastOp.key) /\ PastExpiry(EntryBefore(lastOp.key)))
       => /\ notified = IF hasSink THEN <<Notice(EntryBefore(lastOp.key))>> ELSE <<>>
          /\ EvictionsGrewBy(1)
    /\ IsKeyed
       => \A i \in 1..Len(before.cache) :
             LET e == before.cache[i]
             IN (e.key # lastOp.key /\ PastExpiry(e))
                => \/ EntryAfter(e.key) = e /\ e.key \notin NotifiedKeys
                   \/ /\ Returned("set") /\ ~StoredBefore(lastOp.key)
                      /\ Len(before.cache) = capacity /\ i = 1

\* a set has replaced an expired entry of its key, notified and counted it,
\* and left another expired entry stored
C11_Witness ==
    /\ Returned("set") /\ ~threw
    /\ hasSink /\ trackStats
    /\ Len(before.cache) = 2
    /\ PastExpiry(before.cache[1]) /\ PastExpiry(before.cache[2])
    /\ lastOp.key = before.cache[2].key
    /\ notified = <<Notice(before.cache[2])>>
    /\ evictions = before.evictions + 1
    /\ cache[1] = before.cache[1]
    /\ cache[2].key = lastOp.key

\* C12: with stats tracked, every get adds one to exactly one counter: to hits
\* when it returns the value of a stored entry that is not past its expiry, to
\* misses when the key is absent or its entry is past its expiry.  peek, has,
\* set, delete, clear and purgeExpired leave hits and misses as they were.
C12_GetCountsOnce ==
    /\ (Returned("get") /\ trackStats)
       => IF StoredBefore(lastOp.key) /\ ~PastExpiry(EntryBefore(lastOp.key))
          THEN /\ ret = EntryBefore(lastOp.key).value
               /\ hits = before.hits + 1
               /\ misses = before.misses
          ELSE /\ ret = UNDEFINED
               /\ hits = before.hits
               /\ misses = before.misses + 1
    /\ (\/ Returned("peek") \/ Returned("has") \/ Returned("set")
        \/ Returned("delete") \/ Returned("clear") \/ Returned("purgeExpired"))
       => /\ hits = before.hits
          /\ misses = before.misses

\* with stats tracked, a get of a stored key past its expiry has counted a miss
\* after an earlier get had counted a hit
C12_Witness ==
    /\ Returned("get") /\ trackStats
    /\ StoredBefore(lastOp.key) /\ PastExpiry(EntryBefore(lastOp.key))
    /\ before.hits = 1 /\ hits = 1
    /\ before.misses = 0 /\ misses = 1

\* C13: peek and has never change the order of the keys.  When the key is
\* absent, or stored and not past its expiry, keys() after the call is keys()
\* before it; when the key's entry is past its expiry the call removes that
\* key and leaves the other keys in their order.
C13_PeekHasKeepOrder ==
    (Returned("peek") \/ Returned("has"))
    => IF StoredBefore(lastOp.key) /\ PastExpiry(EntryBefore(lastOp.key))
       THEN keys(cache) = keys(Others(before.cache, lastOp.key))
       ELSE keys(cache) = keys(before.cache)

\* has has found the oldest of three stored keys, whose entry carries an
\* expiry not yet passed, and left the three keys in their order
C13_Witness ==
    /\ Returned("has") /\ ret = TRUE
    /\ Len(before.cache) = 3
    /\ lastOp.key = before.cache[1].key
    /\ before.cache[1].expiresAt # NULL
    /\ keys(cache) = keys(before.cache)

\* C14: purgeExpired removes exactly the entries that are past their expiry
\* when it is called and returns how many it removed; straight after it, has
\* is false for each removed key.
C14_PurgeRemovesExactlyExpired ==
    Returned("purgeExpired")
    => /\ ~threw
       /\ KeySet(cache) = {before.cache[i].key : i \in {j \in 1..Len(before.cache) : ~PastExpiry(before.cache[j])}}
       /\ ret = Cardinality({i \in 1..Len(before.cache) : PastExpiry(before.cache[i])})
       /\ \A i \in 1..Len(before.cache) :
             PastExpiry(before.cache[i]) => has(Self, before.cache[i].key, SinkThrowsOn).ret = FALSE

\* a purge has removed the older, expired entry of two and kept the younger,
\* which carries an expiry not yet passed
C14_Witness ==
    /\ Returned("purgeExpired") /\ ret = 1
    /\ Len(before.cache) = 2
    /\ PastExpiry(before.cache[1])
    /\ before.cache[2].expiresAt # NULL /\ ~PastExpiry(before.cache[2])
    /\ cache = <<before.cache[2]>>

\* C15: with stats not tracked, stats() reports hits, misses and evictions all
\* zero in every state, whatever gets, capacity evictions and expiry removals
\* were made, and resetStats changes nothing.
C15_UntrackedStatsStayZero ==
    ~trackStats
    => /\ stats(Self) = [hits |-> 0, misses |-> 0, evictions |-> 0]
       /\ Returned("resetStats")
          => /\ cache = before.cache
             /\ hits = before.hits /\ misses = before.misses /\ evictions = before.evictions
             /\ notified = <<>>

\* with stats not tracked, a set has evicted the oldest entry of a full store
\* and told onEvict, and stats() is still all zero
C15_Witness ==
    /\ ~trackStats /\ hasSink
    /\ Returned("set") /\ ~StoredBefore(lastOp.key)
    /\ Len(before.cache) = capacity
    /\ notified = <<Notice(before.cache[1])>>
    /\ stats(Self) = [hits |-> 0, misses |-> 0, evictions |-> 0]

\* C16: a set of a key that is already stored never evicts another entry, full
\* store or not: the other entries stay as they were, in their order, and a
\* successful overwrite leaves the size unchanged.  After every successful set,
\* of a new key or a stored one, the key is at the most recent end with the
\* value given.
C16_OverwriteKeepsOthers ==
    /\ (Returned("set") /\ StoredBefore(lastOp.key))
       => /\ Others(cache, lastOp.key) = Others(before.cache, lastOp.key)
          /\ NotifiedKeys \subseteq {lastOp.key}
          /\ ~threw => Len(cache) = Len(before.cache)
    /\ (Returned("set") /\ ~threw)
       => /\ cache # <<>>
          /\ cache[Len(cache)].key = lastOp.key
          /\ cache[Len(cache)].value = lastOp.value

\* a set has overwritten the oldest key of a full store of two with another
\* value: the other entry is kept and the key is now the most recent
C16_Witness ==
    /\ Returned("set") /\ ~threw
    /\ capacity = 2 /\ Len(before.cache) = 2
    /\ lastOp.key = before.cache[1].key
    /\ lastOp.value # before.cache[1].value
    /\ Len(cache) = 2
    /\ cache[1] = before.cache[2]
    /\ cache[2].key = lastOp.key /\ cache[2].value = lastOp.value

\* C17 as stated: onEvict fires on explicit deletion too, so delete of a
\* stored key calls onEvict with that key and its value.
C17_DeleteNotifies ==
    (Returned("delete") /\ hasSink /\ StoredBefore(lastOp.key))
    => notified = <<Notice(EntryBefore(lastOp.key))>>

\* C18: purgeExpired leaves every entry that survives it untouched: the
\* entries that remain are entries of the store before the call, with the same
\* values and expiry timestamps and in the same relative order, and hits and
\* misses are as they were.
C18_PurgeLeavesSurvivors ==
    Returned("purgeExpired")
    => /\ cache = SelectSeq(before.cache, LAMBDA e : StoredAfter(e.key))
       /\ hits = before.hits
       /\ misses = before.misses

\* with stats tracked, a purge has removed the middle entry of three and left
\* the oldest and the youngest, one of them with an expiry, in their order
C18_Witness ==
    /\ Returned("purgeExpired") /\ trackStats
    /\ Len(before.cache) = 3
    /\ PastExpiry(before.cache[2])
    /\ before.cache[3].expiresAt # NULL
    /\ cache = <<before.cache[1], before.cache[3]>>
    /\ hits = before.hits /\ misses = before.misses

\* C19: with stats tracked and a sink configured, evictions counts the calls of
\* onEvict: every call of a method adds to evictions exactly the number of
\* times it called onEvict, and resetStats, which calls it never, leaves
\* evictions at zero; the count starts at zero with no call made.
C19_EvictionsCountNotifications ==
    (trackStats /\ hasSink)
    => /\ (lastOp # Idle /\ ~Returned("resetStats"))
          => evictions = before.evictions + Len(notified)
       /\ Returned("resetStats") => (evictions = 0 /\ notified = <<>>)
       /\ lastOp = Idle => notified = <<>>

\* with stats tracked, a set of a new key into a full store has called onEvict
\* once, for the oldest entry, and evictions has gone from zero to one
C19_Witness ==
    /\ trackStats /\ hasSink
    /\ Returned("set") /\ ~StoredBefore(lastOp.key)
    /\ Len(before.cache) = capacity
    /\ Len(notified) = 1 /\ notified[1].key = before.cache[1].key
    /\ before.evictions = 0 /\ evictions = 1

\* C20: entries past their expiry that no call has touched still count toward
\* size and capacity, and capacity eviction takes no account of expiry: a set
\* of a new key into a store holding capacity entries, expired ones counted,
\* removes the entry at the least recent end and no other.
C20_EvictionIgnoresExpiry ==
    /\ size(Self) = Len(Expired(cache)) + Len(Unexpired(cache))
    /\ (Returned("set") /\ ~StoredBefore(lastOp.key) /\ Len(before.cache) = capacity)
       => /\ ~StoredAfter(before.cache[1].key)
          /\ Others(cache, lastOp.key) = Tail(before.cache)
          /\ NotifiedKeys \subseteq {before.cache[1].key}

\* a set of a new key has evicted the oldest entry, which was not past its
\* expiry, while an entry past its expiry stays stored
C20_Witness ==
    /\ Returned("set") /\ ~threw /\ ~StoredBefore(lastOp.key)
    /\ capacity = 2 /\ Len(before.cache) = 2
    /\ ~PastExpiry(before.cache[1])
    /\ PastExpiry(before.cache[2])
    /\ cache[1] = before.cache[2]
    /\ cache[2].key = lastOp.key

\* C21: get, peek, has and delete of a key affect no other key: every other
\* stored key stays stored with the value and expiry timestamp it had, expired
\* or not, the other keys keep their relative order, and onEvict is called for
\* no other key.
C21_KeyedCallsFrameOthers ==
    (IsRead \/ Returned("delete"))
    => /\ \A i \in 1..Len(before.cache) :
             before.cache[i].key # lastOp.key
             => EntryAfter(before.cache[i].key) = before.cache[i]
       /\ keys(Others(cache, lastOp.key)) = keys(Others(before.cache, lastOp.key))
       /\ NotifiedKeys \subseteq {lastOp.key}

\* a get has moved the middle key of three to the most recent end; the oldest
\* entry, past its expiry, and the youngest are as they were and in their order
C21_Witness ==
    /\ Returned("get") /\ ret # UNDEFINED
    /\ Len(before.cache) = 3
    /\ lastOp.key = before.cache[2].key
    /\ PastExpiry(before.cache[1])
    /\ cache = <<before.cache[1], before.cache[3], before.cache[2]>>

====
